---- MODULE Spec2Model ----
(***************************************************************************)
(* Virtual painter: the three gesture classifiers (hand, face, eye), the   *)
(* canvas and the main loop of app.py, as a state machine.                 *)
(*                                                                         *)
(* Units.  Positions are integer pixel pairs <<x, y>>, as produced by      *)
(* int(lm.x * w), int(lm.y * h).  An absent position (Python None) is the  *)
(* empty tuple.  Clock readings (time.time()) are in tenths of a second;   *)
(* a reading is an input of the frame that takes it, never earlier than a  *)
(* reading the program has stored.  The readings one frame takes          *)
(* (eye_controller.py 74, app.py 115 and 119) are taken as one reading.    *)
(* Distances handed to the face and eye classifiers are integers; the      *)
(* float comparisons of the source are cross-multiplied to integers.      *)
(***************************************************************************)
EXTENDS Integers, Sequences, FiniteSets, Bags, TLC

(***************************************************************************)
(* Program constants                                                       *)
(***************************************************************************)
calibration_frames == 60
\* blink_interval = 0.5 s, in tenths of a second
blink_interval == 5
\* colour-change debounce 1.0 s, in tenths of a second
color_debounce == 10
brush_size == 15
eraser_size == 50
pinch_threshold == 55
\* smoothing_factor = 0.2, in tenths
smoothing_factor == 2
\* thresholds as thousandths of the face height: 0.02, 0.035, 0.018
raise_ratio == 20
mouth_ratio == 35
eye_ratio == 18
color_list == << <<255, 0, 0>>, <<0, 255, 0>>, <<0, 0, 255>>, <<0, 255, 255>> >>
bg_color == <<255, 255, 255>>

None == << >>

(***************************************************************************)
(* Bounds of the exploration                                               *)
(***************************************************************************)
\* most points of one stroke
MaxPoints == 2
\* most strokes sealed in one run of the program
MaxStrokes == 2
\* clock readings are explored from StartTime to StartTime + MaxElapsed
MaxElapsed == 5
\* the same for the eye classifier run alone, on a finer clock
MaxEyeElapsed == 30
\* the same for the colour changes, over several debounce periods
MaxColorElapsed == 50
\* the earliest clock reading (time.time() is far above color_debounce)
StartTime == 100

\* the fingertip and thumb landmarks the oracle reports, in pixels
RawIndexTips == { <<8, 0>>, <<9, 0>> }
ThumbTips == { <<8, 0>>, <<70, 0>> }
\* the canvas pixels that are observed
Pixels == { <<1, 0>>, <<16, 0>> }
\* clock advance between two readings, in tenths of a second
Dts == {0, 5}
EyeDts == {1, 4, 5, 6}
ColorDts == {0, 4, 10, 11}

NoHand == [detected |-> FALSE, index_tip |-> None, thumb_tip |-> None]
HandScenes ==
    {NoHand} \cup
    { [detected |-> TRUE, index_tip |-> i, thumb_tip |-> t] :
        i \in RawIndexTips, t \in ThumbTips }

\* what the face mesh of FaceController yields: nothing, landmarks whose
\* geometry cannot be computed, or the distances measured on the landmarks
NoFace ==
    [kind |-> "none", mouth_distance |-> 0, left_eyebrow_dist |-> 0,
     right_eyebrow_dist |-> 0, face_height |-> 0]
FaceFault == [NoFace EXCEPT !.kind = "fault"]
FaceOf(mouth, brow) ==
    [kind |-> "face", mouth_distance |-> mouth, left_eyebrow_dist |-> brow,
     right_eyebrow_dist |-> brow, face_height |-> 200]
NeutralFace == FaceOf(2, 20)
MouthOpenFace == FaceOf(10, 20)
RaisedFace == FaceOf(2, 30)
FaceScenes == {NoFace, FaceFault, NeutralFace, MouthOpenFace, RaisedFace}

\* what the face mesh of EyeController yields
NoEyes ==
    [kind |-> "none", left_eye_ratio |-> 0, right_eye_ratio |-> 0,
     face_height |-> 0]
EyeFault == [NoEyes EXCEPT !.kind = "fault"]
EyesOf(l, r) ==
    [kind |-> "face", left_eye_ratio |-> l, right_eye_ratio |-> r,
     face_height |-> 200]
OpenEyes == EyesOf(8, 8)
ClosedEyes == EyesOf(1, 1)
LeftWink == EyesOf(1, 8)
RightWink == EyesOf(8, 1)
EyeScenes == {NoEyes, EyeFault, OpenEyes, ClosedEyes, LeftWink, RightWink}

(***************************************************************************)
(* Canvas (drawing/canvas.py).  cv2.line with thickness t paints the       *)
(* pixels within t/2 of the segment.                                       *)
(***************************************************************************)
Dist2(p, q) == (q[1] - p[1]) * (q[1] - p[1]) + (q[2] - p[2]) * (q[2] - p[2])

Covers(p, q, r, thickness) ==
    LET dx == q[1] - p[1]
        dy == q[2] - p[2]
        len2 == dx * dx + dy * dy
        u == (r[1] - p[1]) * dx + (r[2] - p[2]) * dy
        cross == (r[1] - p[1]) * dy - (r[2] - p[2]) * dx
    IN  IF len2 = 0 \/ u < 0 THEN 4 * Dist2(p, r) <= thickness * thickness
        ELSE IF u > len2 THEN 4 * Dist2(q, r) <= thickness * thickness
        ELSE 4 * cross * cross <= thickness * thickness * len2

BlankCanvas == [px \in Pixels |-> bg_color]

draw_line(cv, start_point, end_point, color, thickness) ==
    [px \in Pixels |->
        IF Covers(start_point, end_point, px, thickness) THEN color ELSE cv[px]]

reset(cv) == [px \in Pixels |-> bg_color]

(***************************************************************************)
(* HandController                                                          *)
(***************************************************************************)
HandInit ==
    [index_finger_pos |-> None, is_pinch |-> FALSE,
     prev_index_finger_pos |-> None]

\* int(prev * (1 - 0.2) + new * 0.2), coordinates are non-negative
SmoothCoord(prev, new) ==
    ((10 - smoothing_factor) * prev + smoothing_factor * new) \div 10

Smooth(prev, new) ==
    << SmoothCoord(prev[1], new[1]), SmoothCoord(prev[2], new[2]) >>

\* a hand classifier that keeps its smoothing state when the hand is lost
HandProcessKeepingPrev(h, scene) ==
    IF scene.detected
    THEN LET new_pos == scene.index_tip
             pos == IF ~h.is_pinch /\ h.prev_index_finger_pos # None
                    THEN Smooth(h.prev_index_finger_pos, new_pos)
                    ELSE new_pos
         IN  [index_finger_pos |-> pos,
              prev_index_finger_pos |-> pos,
              is_pinch |-> Dist2(pos, scene.thumb_tip)
                             < pinch_threshold * pinch_threshold]
    ELSE [index_finger_pos |-> None, is_pinch |-> FALSE,
          prev_index_finger_pos |-> h.prev_index_finger_pos]

\* a hand classifier that forgets the position but not the pinch
HandProcessKeepingPinch(h, scene) ==
    IF scene.detected
    THEN LET new_pos == scene.index_tip
             pos == IF ~h.is_pinch /\ h.prev_index_finger_pos # None
                    THEN Smooth(h.prev_index_finger_pos, new_pos)
                    ELSE new_pos
         IN  [index_finger_pos |-> pos,
              prev_index_finger_pos |-> pos,
              is_pinch |-> Dist2(pos, scene.thumb_tip)
                             < pinch_threshold * pinch_threshold]
    ELSE [index_finger_pos |-> None, is_pinch |-> h.is_pinch,
          prev_index_finger_pos |-> None]

HandProcess(h, scene) ==
    IF scene.detected
    THEN LET new_pos == scene.index_tip
             pos == IF ~h.is_pinch /\ h.prev_index_finger_pos # None
                    THEN Smooth(h.prev_index_finger_pos, new_pos)
                    ELSE new_pos
         IN  [index_finger_pos |-> pos,
              prev_index_finger_pos |-> pos,
              is_pinch |-> Dist2(pos, scene.thumb_tip)
                             < pinch_threshold * pinch_threshold]
    ELSE [index_finger_pos |-> None, is_pinch |-> FALSE,
          prev_index_finger_pos |-> None]

(***************************************************************************)
(* FaceController.  neutral_eyebrow_distances is kept as a bag of the      *)
(* doubled averages left + right: the code reads only the sum and the      *)
(* length of the list.  neutral_eyebrow_distance is the pair               *)
(* <<sum, length>> standing for the quotient sum / (2 * length).           *)
(***************************************************************************)
FaceInit ==
    [mouth_open |-> FALSE, eyebrow_raised |-> FALSE, calibrated |-> FALSE,
     neutral_eyebrow_distances |-> EmptyBag,
     neutral_eyebrow_distance |-> None, current_frame |-> 0]

RECURSIVE SumOver(_, _)
SumOver(b, S) ==
    IF S = {} THEN 0
    ELSE LET v == CHOOSE x \in S : TRUE
         IN  v * b[v] + SumOver(b, S \ {v})

BagSum(b) == SumOver(b, BagToSet(b))

\* twice avg_eyebrow_dist = left_eyebrow_dist + right_eyebrow_dist
AvgEyebrow2(scene) == scene.left_eyebrow_dist + scene.right_eyebrow_dist

\* avg_eyebrow_dist > neutral_eyebrow_distance + face_height * 0.02,
\* with avg = a2/2 and neutral = n[1]/(2*n[2]) (the bag holds doubled values)
EyebrowAbove(scene, n) ==
    500 * n[2] * AvgEyebrow2(scene)
        > 500 * n[1] + raise_ratio * scene.face_height * n[2]

\* mouth_distance > face_height * 0.035
MouthAbove(scene) == 1000 * scene.mouth_distance > mouth_ratio * scene.face_height

\* a face classifier whose calibration counter counts every frame, with or
\* without a face
FaceProcessCountingEveryFrame(f, scene) ==
    LET cleared == [f EXCEPT !.mouth_open = FALSE, !.eyebrow_raised = FALSE]
    IN  IF scene.kind # "face"
        THEN IF f.calibrated THEN cleared
             ELSE [cleared EXCEPT !.current_frame = @ + 1]
        ELSE IF ~f.calibrated
        THEN LET ds == f.neutral_eyebrow_distances (+) SetToBag({AvgEyebrow2(scene)})
                 n == f.current_frame + 1
             IN  IF n >= calibration_frames
                 THEN [cleared EXCEPT !.neutral_eyebrow_distances = ds,
                                      !.current_frame = n,
                                      !.neutral_eyebrow_distance =
                                          << BagSum(ds), BagCardinality(ds) >>,
                                      !.calibrated = TRUE]
                 ELSE [cleared EXCEPT !.neutral_eyebrow_distances = ds,
                                      !.current_frame = n]
        ELSE [cleared EXCEPT
                !.eyebrow_raised = EyebrowAbove(scene, f.neutral_eyebrow_distance),
                !.mouth_open = MouthAbove(scene)]

\* a face classifier that reads the gestures off the frame that completes
\* the calibration
FaceProcessEager(f, scene) ==
    LET cleared == [f EXCEPT !.mouth_open = FALSE, !.eyebrow_raised = FALSE]
    IN  IF scene.kind # "face" THEN cleared
        ELSE IF ~f.calibrated
        THEN LET ds == f.neutral_eyebrow_distances (+) SetToBag({AvgEyebrow2(scene)})
                 n == f.current_frame + 1
                 mean == << BagSum(ds), BagCardinality(ds) >>
             IN  IF n >= calibration_frames
                 THEN [cleared EXCEPT !.neutral_eyebrow_distances = ds,
                                      !.current_frame = n,
                                      !.neutral_eyebrow_distance = mean,
                                      !.calibrated = TRUE,
                                      !.eyebrow_raised = EyebrowAbove(scene, mean),
                                      !.mouth_open = MouthAbove(scene)]
                 ELSE [cleared EXCEPT !.neutral_eyebrow_distances = ds,
                                      !.current_frame = n]
        ELSE [cleared EXCEPT
                !.eyebrow_raised = EyebrowAbove(scene, f.neutral_eyebrow_distance),
                !.mouth_open = MouthAbove(scene)]

FaceProcess(f, scene) ==
    LET cleared == [f EXCEPT !.mouth_open = FALSE, !.eyebrow_raised = FALSE]
    IN  IF scene.kind # "face" THEN cleared
        ELSE IF ~f.calibrated
        THEN LET ds == f.neutral_eyebrow_distances (+) SetToBag({AvgEyebrow2(scene)})
                 n == f.current_frame + 1
             IN  IF n >= calibration_frames
                 THEN [cleared EXCEPT !.neutral_eyebrow_distances = ds,
                                      !.current_frame = n,
                                      !.neutral_eyebrow_distance =
                                          << BagSum(ds), BagCardinality(ds) >>,
                                      !.calibrated = TRUE]
                 ELSE [cleared EXCEPT !.neutral_eyebrow_distances = ds,
                                      !.current_frame = n]
        ELSE [cleared EXCEPT
                !.eyebrow_raised = EyebrowAbove(scene, f.neutral_eyebrow_distance),
                !.mouth_open = MouthAbove(scene)]

(***************************************************************************)
(* EyeController                                                           *)
(***************************************************************************)
EyeInit ==
    [double_blink_detected |-> FALSE, left_wink_detected |-> FALSE,
     right_wink_detected |-> FALSE, last_blink_time |-> 0]

_reset_gestures(e) ==
    [e EXCEPT !.double_blink_detected = FALSE, !.left_wink_detected = FALSE,
              !.right_wink_detected = FALSE]

\* ratio < face_height * 0.018
EyeClosed(ratio, face_height) == 1000 * ratio < eye_ratio * face_height

\* an eye classifier that leaves its flags as they are on a landmark fault
EyeProcessFaultKeepingGestures(e, scene, current_time) ==
    LET cleared == _reset_gestures(e)
        left_eye_closed == EyeClosed(scene.left_eye_ratio, scene.face_height)
        right_eye_closed == EyeClosed(scene.right_eye_ratio, scene.face_height)
    IN  IF scene.kind = "fault" THEN e
        ELSE IF scene.kind # "face" THEN cleared
        ELSE IF left_eye_closed /\ right_eye_closed
        THEN [cleared EXCEPT
                !.double_blink_detected =
                    (current_time - e.last_blink_time) < blink_interval,
                !.last_blink_time = current_time]
        ELSE IF left_eye_closed /\ ~right_eye_closed
        THEN [cleared EXCEPT !.left_wink_detected = TRUE]
        ELSE IF right_eye_closed /\ ~left_eye_closed
        THEN [cleared EXCEPT !.right_wink_detected = TRUE]
        ELSE cleared

\* an eye classifier that reports a wink only on the frame in which it
\* begins
EyeProcessEdgeTriggered(e, scene, current_time) ==
    LET cleared == _reset_gestures(e)
        left_eye_closed == EyeClosed(scene.left_eye_ratio, scene.face_height)
        right_eye_closed == EyeClosed(scene.right_eye_ratio, scene.face_height)
    IN  IF scene.kind # "face" THEN cleared
        ELSE IF left_eye_closed /\ right_eye_closed
        THEN [cleared EXCEPT
                !.double_blink_detected =
                    (current_time - e.last_blink_time) < blink_interval,
                !.last_blink_time = current_time]
        ELSE IF left_eye_closed /\ ~right_eye_closed
        THEN [cleared EXCEPT !.left_wink_detected = ~e.left_wink_detected]
        ELSE IF right_eye_closed /\ ~left_eye_closed
        THEN [cleared EXCEPT !.right_wink_detected = ~e.right_wink_detected]
        ELSE cleared

EyeProcess(e, scene, current_time) ==
    LET cleared == _reset_gestures(e)
        left_eye_closed == EyeClosed(scene.left_eye_ratio, scene.face_height)
        right_eye_closed == EyeClosed(scene.right_eye_ratio, scene.face_height)
    IN  IF scene.kind # "face" THEN cleared
        ELSE IF left_eye_closed /\ right_eye_closed
        THEN [cleared EXCEPT
                !.double_blink_detected =
                    (current_time - e.last_blink_time) < blink_interval,
                !.last_blink_time = current_time]
        ELSE IF left_eye_closed /\ ~right_eye_closed
        THEN [cleared EXCEPT !.left_wink_detected = TRUE]
        ELSE IF right_eye_closed /\ ~left_eye_closed
        THEN [cleared EXCEPT !.right_wink_detected = TRUE]
        ELSE cleared

(***************************************************************************)
(* State.  hand, face, eye are the three controller objects; the rest are  *)
(* the locals of main() in app.py.  A stroke is the dict                   *)
(* {'points', 'color'}; its field id stands for the identity of the dict   *)
(* object (the number of the seal that created it), and sealed counts the  *)
(* strokes sealed so far.  pc is the position of the loop; key_pressed     *)
(* is the quit key waiting to be polled by cv2.waitKey.                    *)
(*                                                                         *)
(* History variables, read by no action:                                   *)
(*   run_frames   frames of the drawing run in progress                    *)
(*   eyes_shut    both eyes were closed in the frame last classified       *)
(*   blink_fired  the last frame in which both eyes closed (after a frame  *)
(*                in which they were not both closed) reported a double   *)
(*                blink                                                    *)
(*   before_undo  <<canvas, stroke_history, redo_stack>> as they were      *)
(*                when the frame last processed reached its undo check,    *)
(*                if that frame undid a stroke; << >> otherwise            *)
(***************************************************************************)
VARIABLES hand, face, eye, canvas, color_index, current_color,
          stroke_history, redo_stack, prev_index_pos, prev_eraser_pos,
          current_stroke, last_color_change_time, sealed, pc, key_pressed,
          run_frames, eyes_shut, blink_fired, before_undo

locals == << canvas, color_index, current_color, stroke_history, redo_stack,
             prev_index_pos, prev_eraser_pos, current_stroke,
             last_color_change_time, sealed >>

history_vars == << run_frames, eyes_shut, blink_fired, before_undo >>

vars == << hand, face, eye, locals, pc, key_pressed, history_vars >>

\* the locals of main() as one record
Locals ==
    [canvas |-> canvas, color_index |-> color_index,
     current_color |-> current_color, stroke_history |-> stroke_history,
     redo_stack |-> redo_stack, prev_index_pos |-> prev_index_pos,
     prev_eraser_pos |-> prev_eraser_pos, current_stroke |-> current_stroke,
     last_color_change_time |-> last_color_change_time, sealed |-> sealed]

LocalsInit ==
    [canvas |-> BlankCanvas, color_index |-> 0, current_color |-> color_list[1],
     stroke_history |-> << >>, redo_stack |-> << >>, prev_index_pos |-> None,
     prev_eraser_pos |-> None, current_stroke |-> << >>,
     last_color_change_time |-> 0, sealed |-> 0]

(***************************************************************************)
(* The steps of one frame, in the order of app.py                          *)
(***************************************************************************)
\* app.py 66: the frame draws
Drawing(index_pos, pinch, mouth) == index_pos # None /\ pinch /\ ~mouth

\* app.py 81-86: the stroke in progress becomes a stroke of the history
Seal(m) ==
    IF m.current_stroke # << >>
    THEN [m EXCEPT
            !.stroke_history =
                Append(@, [points |-> m.current_stroke,
                           color |-> m.current_color,
                           id |-> m.sealed + 1]),
            !.current_stroke = << >>,
            !.sealed = @ + 1]
    ELSE m

\* app.py 66-87: draw a segment and extend the stroke, or seal the stroke
DrawOrSeal(m, index_pos, pinch, mouth) ==
    IF Drawing(index_pos, pinch, mouth)
    THEN LET drawn ==
                 IF m.prev_index_pos # None
                 THEN [m EXCEPT
                         !.canvas = draw_line(@, m.prev_index_pos, index_pos,
                                              m.current_color, brush_size),
                         !.current_stroke = Append(@, index_pos)]
                 ELSE m
         IN  [drawn EXCEPT !.prev_index_pos = index_pos,
                           !.prev_eraser_pos = None]
    ELSE [Seal(m) EXCEPT !.prev_index_pos = None]

\* app.py 90-110: eraser mode
Erase(m, index_pos, mouth) ==
    IF mouth
    THEN IF index_pos # None
         THEN LET wiped ==
                      IF m.prev_eraser_pos # None
                      THEN [m EXCEPT
                              !.canvas = draw_line(@, m.prev_eraser_pos, index_pos,
                                                   bg_color, eraser_size)]
                      ELSE m
              IN  [wiped EXCEPT !.prev_eraser_pos = index_pos,
                                !.prev_index_pos = None]
         ELSE m
    ELSE [m EXCEPT !.prev_eraser_pos = None]

\* a colour change on every frame with the eyebrows raised
ChangeColorEveryFrame(m, eyebrow, double_blink, t) ==
    IF eyebrow /\ ~double_blink
    THEN LET ci == (m.color_index + 1) % Len(color_list)
         IN  [m EXCEPT !.color_index = ci,
                       !.current_color = color_list[ci + 1],
                       !.last_color_change_time = t]
    ELSE m

\* app.py 113-121: eyebrow raise changes the colour, at most once a second
ChangeColor(m, eyebrow, double_blink, t) ==
    IF eyebrow /\ ~double_blink /\ t - m.last_color_change_time > color_debounce
    THEN LET ci == (m.color_index + 1) % Len(color_list)
         IN  [m EXCEPT !.color_index = ci,
                       !.current_color = color_list[ci + 1],
                       !.last_color_change_time = t]
    ELSE m

\* a save that leaves the canvas as it is
SaveKeepingCanvas(m, double_blink) ==
    IF double_blink
    THEN [m EXCEPT !.stroke_history = << >>, !.redo_stack = << >>]
    ELSE m

\* app.py 126-140: double blink saves the canvas and clears everything
SaveAndClear(m, double_blink) ==
    IF double_blink
    THEN [m EXCEPT !.canvas = reset(@), !.stroke_history = << >>,
                   !.redo_stack = << >>]
    ELSE m

\* app.py 150-151 and 163-164: the segments of one stroke, from point i on
RECURSIVE DrawStroke(_, _, _, _)
DrawStroke(cv, pts, col, i) ==
    IF i > Len(pts) THEN cv
    ELSE DrawStroke(draw_line(cv, pts[i - 1], pts[i], col, brush_size),
                    pts, col, i + 1)

\* app.py 148-151: the strokes of a history, in order
RECURSIVE Replay(_, _)
Replay(cv, strokes) ==
    IF strokes = << >> THEN cv
    ELSE Replay(DrawStroke(cv, Head(strokes).points, Head(strokes).color, 2),
                Tail(strokes))

\* an undo that moves the stroke and leaves the canvas as it is
UndoLeavingCanvas(m) ==
    IF m.stroke_history # << >>
    THEN LET n == Len(m.stroke_history)
         IN  [m EXCEPT !.redo_stack = Append(@, m.stroke_history[n]),
                       !.stroke_history = SubSeq(@, 1, n - 1)]
    ELSE m

\* an undo that copies the last stroke to the redo stack and keeps it
UndoKeepingStroke(m) ==
    IF m.stroke_history # << >>
    THEN LET n == Len(m.stroke_history)
         IN  [m EXCEPT !.redo_stack = Append(@, m.stroke_history[n]),
                       !.canvas = Replay(reset(@), SubSeq(m.stroke_history, 1, n - 1))]
    ELSE m

\* app.py 145-154
Undo(m) ==
    IF m.stroke_history # << >>
    THEN LET n == Len(m.stroke_history)
             rest == SubSeq(m.stroke_history, 1, n - 1)
         IN  [m EXCEPT !.redo_stack = Append(@, m.stroke_history[n]),
                       !.stroke_history = rest,
                       !.canvas = Replay(reset(@), rest)]
    ELSE m

\* app.py 159-167
Redo(m) ==
    IF m.redo_stack # << >>
    THEN LET n == Len(m.redo_stack)
             stroke == m.redo_stack[n]
         IN  [m EXCEPT !.redo_stack = SubSeq(@, 1, n - 1),
                       !.stroke_history = Append(@, stroke),
                       !.canvas = DrawStroke(@, stroke.points, stroke.color, 2)]
    ELSE m

\* undo and redo checked one after the other, the redo check not nested
UndoThenRedoUnnested(m, left_wink, right_wink) ==
    LET undone == IF left_wink THEN Undo(m) ELSE m
    IN  IF right_wink THEN Redo(undone) ELSE undone

\* app.py 143-167: the redo check sits inside the left-wink branch
UndoRedo(m, left_wink, right_wink) ==
    IF left_wink
    THEN IF right_wink THEN Redo(Undo(m)) ELSE Undo(m)
    ELSE m

\* app.py 63-140: the frame up to the undo check
BeforeUndo(m, h, f, e, t) ==
    LET index_pos == h.index_finger_pos
        m1 == DrawOrSeal(m, index_pos, h.is_pinch, f.mouth_open)
        m2 == Erase(m1, index_pos, f.mouth_open)
        m3 == ChangeColor(m2, f.eyebrow_raised, e.double_blink_detected, t)
    IN  SaveAndClear(m3, e.double_blink_detected)

\* app.py 63-167: the gesture-to-canvas translation of one frame
Translate(m, h, f, e, t) ==
    UndoRedo(BeforeUndo(m, h, f, e, t), e.left_wink_detected,
             e.right_wink_detected)

Max(S) == CHOOSE x \in S : \A y \in S : y <= x

\* time.time(): the readings a frame of the main loop may take
ClockReadings ==
    LET base == Max({StartTime, eye.last_blink_time, last_color_change_time})
    IN  { base + dt : dt \in Dts } \cap (StartTime .. StartTime + MaxElapsed)

\* the strokes stay within the explored bounds
WithinBounds(m) ==
    /\ Len(m.current_stroke) <= MaxPoints
    /\ m.sealed <= MaxStrokes
    /\ m.current_stroke # << >> => m.sealed < MaxStrokes

SetLocals(m) ==
    /\ canvas' = m.canvas
    /\ color_index' = m.color_index
    /\ current_color' = m.current_color
    /\ stroke_history' = m.stroke_history
    /\ redo_stack' = m.redo_stack
    /\ prev_index_pos' = m.prev_index_pos
    /\ prev_eraser_pos' = m.prev_eraser_pos
    /\ current_stroke' = m.current_stroke
    /\ last_color_change_time' = m.last_color_change_time
    /\ sealed' = m.sealed

BothShut(es) ==
    /\ es.kind = "face"
    /\ EyeClosed(es.left_eye_ratio, es.face_height)
    /\ EyeClosed(es.right_eye_ratio, es.face_height)

\* app.py 186-188: cv2.waitKey polls the quit key
PollKey ==
    /\ pc' = IF key_pressed THEN "done" ELSE "loop"
    /\ key_pressed' = FALSE

\* app.py 54-188: one iteration of the loop on a frame that was read
FrameOn(hs, fs, es, t) ==
    LET h == HandProcess(hand, hs)
        f == FaceProcess(face, fs)
        e == EyeProcess(eye, es, t)
        m == Translate(Locals, h, f, e, t)
    IN  /\ pc = "loop"
        /\ WithinBounds(m)
        /\ hand' = h
        /\ face' = f
        /\ eye' = e
        /\ SetLocals(m)
        /\ PollKey
        /\ run_frames' = IF Drawing(h.index_finger_pos, h.is_pinch, f.mouth_open)
                         THEN run_frames + 1 ELSE 0
        /\ eyes_shut' = BothShut(es)
        /\ blink_fired' = IF BothShut(es) /\ ~eyes_shut
                          THEN e.double_blink_detected
                          ELSE blink_fired
        /\ before_undo' =
               LET b == BeforeUndo(Locals, h, f, e, t)
               IN  IF e.left_wink_detected /\ b.stroke_history # << >>
                   THEN << b.canvas, b.stroke_history, b.redo_stack >>
                   ELSE << >>

\* nothing has happened yet but the calibration of the face classifier
Idle ==
    /\ hand = HandInit
    /\ eye = EyeInit
    /\ Locals = LocalsInit

\* The sessions explored.  Either FaceController's mesh never finds the
\* face, and the painter draws and gives every eye gesture with the face
\* classifier uncalibrated; or the painter first sits still before the
\* camera until the face classifier is calibrated (a neutral face, no hand),
\* and then draws with every face gesture, undoes with the hand away, and
\* may leave the picture or upset the landmark geometry.
CalibratedScenes ==
    (HandScenes \X { <<NeutralFace, OpenEyes>>, <<MouthOpenFace, OpenEyes>>,
                     <<RaisedFace, OpenEyes>> })
    \cup ({NoHand} \X { <<NoFace, NoEyes>>, <<FaceFault, EyeFault>>,
                        <<NeutralFace, LeftWink>> })

Scenes ==
    IF face.calibrated
    THEN CalibratedScenes
    ELSE ( IF Idle THEN { <<NoHand, <<NeutralFace, OpenEyes>>>> } ELSE {} )
         \cup ( IF face.current_frame = 0
                THEN HandScenes \X { <<NoFace, es>> : es \in EyeScenes }
                ELSE { <<NoHand, <<NoFace, NoEyes>>>> } )

Frame ==
    \E sc \in Scenes, t \in ClockReadings :
        FrameOn(sc[1], sc[2][1], sc[2][2], t)

Init ==
    /\ hand = HandInit
    /\ face = FaceInit
    /\ eye = EyeInit
    /\ canvas = LocalsInit.canvas
    /\ color_index = LocalsInit.color_index
    /\ current_color = LocalsInit.current_color
    /\ stroke_history = LocalsInit.stroke_history
    /\ redo_stack = LocalsInit.redo_stack
    /\ prev_index_pos = LocalsInit.prev_index_pos
    /\ prev_eraser_pos = LocalsInit.prev_eraser_pos
    /\ current_stroke = LocalsInit.current_stroke
    /\ last_color_change_time = LocalsInit.last_color_change_time
    /\ sealed = LocalsInit.sealed
    /\ pc = "loop"
    /\ key_pressed = FALSE
    /\ run_frames = 0
    /\ eyes_shut = FALSE
    /\ blink_fired = FALSE
    /\ before_undo = << >>

Next == Frame

Spec == Init /\ [][Next]_vars

(***************************************************************************)
(* The face classifier alone, from construction, on every face             *)
(***************************************************************************)
FaceFrame ==
    /\ \E fs \in FaceScenes : face' = FaceProcess(face, fs)
    /\ UNCHANGED << hand, eye, locals, pc, key_pressed, history_vars >>

SpecFace == Init /\ [][FaceFrame]_vars

(***************************************************************************)
(* The eye classifier alone, from construction, on a finer clock           *)
(***************************************************************************)
EyeClockReadings ==
    LET base == Max({StartTime, eye.last_blink_time})
    IN  { base + dt : dt \in EyeDts } \cap (StartTime .. StartTime + MaxEyeElapsed)

EyeFrame ==
    /\ \E es \in EyeScenes, t \in EyeClockReadings :
          /\ eye' = EyeProcess(eye, es, t)
          /\ eyes_shut' = BothShut(es)
          /\ blink_fired' = IF BothShut(es) /\ ~eyes_shut
                            THEN EyeProcess(eye, es, t).double_blink_detected
                            ELSE blink_fired
    /\ UNCHANGED << hand, face, locals, pc, key_pressed, run_frames, before_undo >>

SpecEye == Init /\ [][EyeFrame]_vars

(***************************************************************************)
(* The loop of main() with its capture device and its keyboard.  The       *)
(* painter shows hands only.                                               *)
(***************************************************************************)
\* a failed read that is still handed to the hand classifier, which resets
\* its outputs on an empty frame (hand_controller.py 30-34)
ReadFailResettingHand ==
    /\ pc = "loop"
    /\ pc' = "retry"
    /\ hand' = [hand EXCEPT !.index_finger_pos = None, !.is_pinch = FALSE]
    /\ UNCHANGED << face, eye, locals, key_pressed, history_vars >>

\* app.py 48-50: cap.read() fails or returns an empty frame
ReadFail ==
    /\ pc = "loop"
    /\ pc' = "retry"
    /\ UNCHANGED << hand, face, eye, locals, key_pressed, history_vars >>

\* app.py 51-52: time.sleep(0.1); continue
Retry ==
    /\ pc = "retry"
    /\ pc' = "loop"
    /\ UNCHANGED << hand, face, eye, locals, key_pressed, history_vars >>

\* the user presses the quit key; it stays pressed until it is polled
PressQuit ==
    /\ pc # "done"
    /\ ~key_pressed
    /\ key_pressed' = TRUE
    /\ UNCHANGED << hand, face, eye, locals, pc, history_vars >>

\* app.py 54-188 on a frame that shows a hand or none, and no face
LoopFrame ==
    \E hs \in HandScenes, t \in ClockReadings : FrameOn(hs, NoFace, NoEyes, t)

\* app.py 57-59, 182-188: hand.process raises before it stores anything
\* (hand_controller.py 36-37), the fault is printed and the key is polled
FrameRaises ==
    /\ pc = "loop"
    /\ PollKey
    /\ UNCHANGED << hand, face, eye, locals, history_vars >>

LoopStep == ReadFail \/ Retry \/ LoopFrame \/ FrameRaises

LoopNext == LoopStep \/ PressQuit

\* the loop keeps running: it is never suspended for ever
LoopSpec == Init /\ [][LoopNext]_vars /\ WF_vars(LoopStep)

(***************************************************************************)
(* Properties                                                              *)
(***************************************************************************)
(***************************************************************************)
(* The hand classifier alone, from construction, on fingertips far apart   *)
(***************************************************************************)
FarIndexTips == { <<0, 0>>, <<100, 50>> }
FarThumbTips == { <<0, 0>>, <<100, 50>>, <<400, 400>> }

SeenHands ==
    { [detected |-> TRUE, index_tip |-> i, thumb_tip |-> t] :
        i \in FarIndexTips, t \in FarThumbTips }

HandFrame ==
    /\ \E hs \in {NoHand} \cup SeenHands : hand' = HandProcess(hand, hs)
    /\ UNCHANGED << face, eye, locals, pc, key_pressed, history_vars >>

SpecHand == Init /\ [][HandFrame]_vars

(***************************************************************************)
(* Drawing and erasing.  The painter sits still until the face classifier  *)
(* is calibrated, then draws and erases, with the mouth open or closed     *)
(* whether or not the hand is in the picture; the eyes stay open.          *)
(***************************************************************************)
EraseScenes ==
    IF face.calibrated
    THEN HandScenes \X {NeutralFace, MouthOpenFace}
    ELSE { <<NoHand, NeutralFace>> }

EraseFrame ==
    \E sc \in EraseScenes, t \in ClockReadings :
        FrameOn(sc[1], sc[2], OpenEyes, t)

SpecErase == Init /\ [][EraseFrame]_vars

(***************************************************************************)
(* Colour changes.  The painter sits still until the face classifier is    *)
(* calibrated, then raises the eyebrows and blinks, the hand away, over     *)
(* several debounce periods.                                               *)
(***************************************************************************)
ColorScenes ==
    IF face.calibrated
    THEN { <<NeutralFace, OpenEyes>>, <<RaisedFace, OpenEyes>>,
           <<RaisedFace, ClosedEyes>> }
    ELSE { <<NeutralFace, OpenEyes>> }

ColorClockReadings ==
    LET base == Max({StartTime, eye.last_blink_time, last_color_change_time})
    IN  { base + dt : dt \in ColorDts }
            \cap (StartTime .. StartTime + MaxColorElapsed)

ColorFrame ==
    \E sc \in ColorScenes, t \in ColorClockReadings :
        FrameOn(NoHand, sc[1], sc[2], t)

SpecColor == Init /\ [][ColorFrame]_vars

\* C1: at the end of every frame the live canvas is identical to the image
\* obtained by replaying the strokes of the history, in order, onto a fresh
\* background-colour canvas.
C1_CanvasIsReplayOfHistory == canvas = Replay(BlankCanvas, stroke_history)

\* C2: an undo (left-wink frame) followed by a redo (right-wink frame)
\* leaves canvas, history and redo stack as they were before the undo.  The
\* right-wink frame shows no hand and finds no stroke in progress, so that
\* it neither draws nor seals.
C2_UndoThenRedoRestores ==
    [][ ( /\ before_undo # << >>
          /\ eye'.right_wink_detected
          /\ hand'.index_finger_pos = None
          /\ current_stroke = << >> )
        => << canvas', stroke_history', redo_stack' >> = before_undo ]_vars

\* C3: at the end of a frame in which double blink fires, history and redo
\* stack are empty and every canvas pixel is the background colour, even
\* when the frame drew or sealed a stroke; and a left-wink frame that finds
\* the history empty (nothing to seal, no hand) changes none of canvas,
\* history and redo stack.
C3_SaveClearsAndUndoOfNothing ==
    /\ [](eye.double_blink_detected =>
            /\ stroke_history = << >>
            /\ redo_stack = << >>
            /\ \A px \in Pixels : canvas[px] = bg_color)
    /\ [][ ( /\ eye'.left_wink_detected
             /\ stroke_history = << >>
             /\ current_stroke = << >>
             /\ hand'.index_finger_pos = None )
           => UNCHANGED << canvas, stroke_history, redo_stack >> ]_vars

\* a frame that drew a segment and then saved: the canvas is blank again
C3_Witness ==
    /\ eye.double_blink_detected
    /\ run_frames >= 2
    /\ current_stroke # << >>
    /\ sealed >= 1

\* C4: double blink fires only as the second of two distinct both-eyes-closed
\* events less than 0.5 s apart: never while the eyes were already shut in
\* the frame before (one continuous episode), never on the first event, and
\* never 0.5 s or more after the last event.
C4_DoubleBlinkNeedsTwoEvents ==
    [][ eye'.double_blink_detected =>
          /\ ~eyes_shut
          /\ eye.last_blink_time # 0
          /\ eye'.last_blink_time - eye.last_blink_time < blink_interval ]_vars

\* C5: a run of at least two drawing frames adds, when it ends, exactly one
\* stroke to the history, with one point per frame of the run and the colour
\* active at the release.  The frame that ends the run gives no save and no
\* undo gesture.
C5_RunSealsOnePointPerFrame ==
    [][ ( /\ run_frames >= 2
          /\ run_frames' = 0
          /\ ~eye'.double_blink_detected
          /\ ~eye'.left_wink_detected )
        => /\ Len(stroke_history') = Len(stroke_history) + 1
           /\ SubSeq(stroke_history', 1, Len(stroke_history)) = stroke_history
           /\ Len(stroke_history'[Len(stroke_history')].points) = run_frames
           /\ stroke_history'[Len(stroke_history')].color = current_color ]_vars

\* C6: while the face classifier has processed fewer than 60 face frames,
\* and on the 60th itself, mouth_open and eyebrow_raised are false at the
\* end of every frame, whatever distances the frame measures.
C6_NoGestureWhileCalibrating ==
    [][ face.current_frame < calibration_frames =>
          ~face'.mouth_open /\ ~face'.eyebrow_raised ]_vars

\* the 60th face frame has been processed, raised eyebrows were measured
\* during the calibration, and no gesture is reported
C6_Witness ==
    /\ face.calibrated
    /\ face.current_frame = calibration_frames
    /\ face.neutral_eyebrow_distance[2] = calibration_frames
    /\ BagIn(AvgEyebrow2(RaisedFace), face.neutral_eyebrow_distances)
    /\ ~face.mouth_open /\ ~face.eyebrow_raised

\* C7: in every reachable state a frame that shows no hand and no face
\* leaves the position absent, pinch, mouth-open, eyebrow-raised, double
\* blink, left wink and right wink all false, and the canvas unchanged.
C7_NothingSeenNothingDone ==
    \A t \in ClockReadings :
        LET h == HandProcess(hand, NoHand)
            f == FaceProcess(face, NoFace)
            e == EyeProcess(eye, NoEyes, t)
            m == Translate(Locals, h, f, e, t)
        IN  /\ h.index_finger_pos = None
            /\ ~h.is_pinch
            /\ ~f.mouth_open /\ ~f.eyebrow_raised
            /\ ~e.double_blink_detected
            /\ ~e.left_wink_detected /\ ~e.right_wink_detected
            /\ m.canvas = canvas

\* the painter pinches before a painted canvas with an eye gesture showing:
\* the state a frame without hand and face then has to clear
C7_Witness ==
    /\ hand.is_pinch
    /\ hand.index_finger_pos # None
    /\ eye.left_wink_detected
    /\ \E px \in Pixels : canvas[px] # bg_color
    /\ current_stroke # << >>

\* C8: each sealed stroke is in the history or in the redo stack or in
\* neither; no stroke is in both stacks or twice in one stack.
C8_StrokeInAtMostOnePlace ==
    LET all == stroke_history \o redo_stack
    IN  /\ \A i, j \in 1 .. Len(all) : all[i].id = all[j].id => i = j
        /\ \A i \in 1 .. Len(all) : all[i].id \in 1 .. sealed

\* one stroke undone, another in the history
C8_Witness ==
    /\ Len(stroke_history) = 1
    /\ Len(redo_stack) = 1
    /\ sealed = 2

\* C9: a frame that seals a stroke while the redo stack is non-empty (and
\* undoes nothing itself) ends with the redo stack empty.
C9_SealClearsRedo ==
    [][ ( /\ sealed' = sealed + 1
          /\ redo_stack # << >>
          /\ ~eye'.left_wink_detected )
        => redo_stack' = << >> ]_vars

\* C10: once the quit key is pressed the loop eventually terminates,
\* whatever the capture device returns and whether or not the processing of
\* a frame raises; and the loop terminates only when the key was pressed.
C10_QuitKeyTerminates ==
    /\ key_pressed ~> pc = "done"
    /\ [][ (pc # "done" /\ pc' = "done") => key_pressed ]_vars

\* C11: a loop iteration whose frame read fails or returns an empty frame
\* (the loop goes to its sleep and back) changes none of canvas, history, redo stack,
\* stroke in progress, previous brush and eraser positions, colour index,
\* colour, debounce time, and no state of the three classifiers.
C11_FailedReadChangesNothing ==
    [][ (pc' = "retry" \/ pc = "retry") =>
          UNCHANGED << hand, face, eye, locals >> ]_vars

\* a read has failed in the middle of a stroke: the hand is pinching, the
\* stroke in progress and the brush position are kept
C11_Witness ==
    /\ pc = "retry"
    /\ hand.is_pinch
    /\ current_stroke # << >>
    /\ prev_index_pos # None
    /\ \E px \in Pixels : canvas[px] # bg_color

\* C12: after HandProcess on a frame in which no hand is detected the
\* position is absent, the pinch is false and the previous (smoothing)
\* position is cleared, so that the position of the next frame with a hand
\* is that frame's raw fingertip position.
C12_HandLossClearsSmoothing ==
    LET lost == HandProcess(hand, NoHand)
    IN  /\ lost.index_finger_pos = None
        /\ ~lost.is_pinch
        /\ lost.prev_index_finger_pos = None
        /\ \A hs \in SeenHands :
              HandProcess(lost, hs).index_finger_pos = hs.index_tip

\* the hand is open and its position is a smoothed one, off every raw
\* fingertip: the next position would be smoothed were the hand not lost
C12_Witness ==
    /\ hand.prev_index_finger_pos # None
    /\ ~hand.is_pinch
    /\ hand.index_finger_pos \notin FarIndexTips
    /\ \E hs \in SeenHands :
          HandProcess(hand, hs).index_finger_pos # hs.index_tip

\* C13: on every frame for which the pinch is reported the position is the
\* raw fingertip position; a position other than the raw one is reported
\* only with the pinch false and a previous position present.
C13_PinchReportsRawPosition ==
    \A hs \in SeenHands :
        LET h == HandProcess(hand, hs)
        IN  /\ h.is_pinch => h.index_finger_pos = hs.index_tip
            /\ h.index_finger_pos # hs.index_tip =>
                  ~h.is_pinch /\ hand.prev_index_finger_pos # None

\* C14: on a frame where right wink fires and the redo stack is non-empty
\* (no hand, nothing to seal) the top stroke of the redo stack is popped,
\* pushed onto the history, and its segments are drawn onto the canvas.
C14_RightWinkRedoes ==
    [][ ( /\ eye'.right_wink_detected
          /\ redo_stack # << >>
          /\ current_stroke = << >>
          /\ hand'.index_finger_pos = None )
        => LET stroke == redo_stack[Len(redo_stack)]
           IN  /\ redo_stack' = SubSeq(redo_stack, 1, Len(redo_stack) - 1)
               /\ stroke_history' = Append(stroke_history, stroke)
               /\ canvas' = DrawStroke(canvas, stroke.points, stroke.color, 2)
      ]_vars

\* C15: at the end of a frame where left wink fired with the history
\* non-empty, exactly the most recent stroke has moved from the history to
\* the top of the redo stack, the other strokes and their order are
\* unchanged, and the canvas is the replay of the remaining history, in
\* order, onto a background-colour canvas.
C15_UndoMovesLastAndReplays ==
    before_undo # << >> =>
        LET history == before_undo[2]
            redo == before_undo[3]
            n == Len(history)
        IN  /\ eye.left_wink_detected
            /\ stroke_history = SubSeq(history, 1, n - 1)
            /\ redo_stack = Append(redo, history[n])
            /\ canvas = Replay(BlankCanvas, stroke_history)

\* the second of two strokes has just been undone; the first is still
\* painted on the canvas
C15_Witness ==
    /\ before_undo # << >>
    /\ Len(stroke_history) = 1
    /\ Len(stroke_history[1].points) >= 2
    /\ \E px \in Pixels : canvas[px] = stroke_history[1].color
    /\ before_undo[1] # canvas

\* C16: of three both-eyes-closed events, each less than 0.5 s after the
\* one before, the second fires double blink and the third does not: an
\* event that follows an event that fired does not fire, and an event less
\* than 0.5 s after one that did not fire does.
C16_ThirdBlinkStartsNewWindow ==
    [][ (~eyes_shut /\ eyes_shut') =>
          /\ blink_fired => ~eye'.double_blink_detected
          /\ ( /\ ~blink_fired
               /\ eye.last_blink_time # 0
               /\ eye'.last_blink_time - eye.last_blink_time < blink_interval )
             => eye'.double_blink_detected ]_vars

\* C17: the calibration counter increases by exactly one on each frame with
\* a face while uncalibrated and is unchanged on frames with no face or with
\* a landmark fault; the classifier is calibrated exactly when the counter
\* has reached 60, the baseline being the mean of the 60 measurements taken;
\* once calibrated it stays calibrated and baseline, measurements and counter
\* never change again.
C17_CalibrationOneWay ==
    /\ face.calibrated <=> face.current_frame = calibration_frames
    /\ face.current_frame <= calibration_frames
    /\ BagCardinality(face.neutral_eyebrow_distances) = face.current_frame
    /\ face.calibrated =>
          face.neutral_eyebrow_distance =
              << BagSum(face.neutral_eyebrow_distances), calibration_frames >>
    /\ ~face.calibrated => face.neutral_eyebrow_distance = None
    /\ \A fs \in FaceScenes :
          LET f == FaceProcess(face, fs)
          IN  /\ (~face.calibrated /\ fs.kind = "face") =>
                    /\ f.current_frame = face.current_frame + 1
                    /\ f.neutral_eyebrow_distances =
                          face.neutral_eyebrow_distances
                              (+) SetToBag({AvgEyebrow2(fs)})
              /\ (face.calibrated \/ fs.kind # "face") =>
                    /\ f.current_frame = face.current_frame
                    /\ f.calibrated = face.calibrated
                    /\ f.neutral_eyebrow_distance = face.neutral_eyebrow_distance
                    /\ f.neutral_eyebrow_distances = face.neutral_eyebrow_distances

\* calibrated on measurements of neutral and of raised eyebrows, and a
\* raise is reported against that baseline
C17_Witness ==
    /\ face.calibrated
    /\ face.eyebrow_raised
    /\ BagIn(AvgEyebrow2(NeutralFace), face.neutral_eyebrow_distances)
    /\ BagIn(AvgEyebrow2(RaisedFace), face.neutral_eyebrow_distances)

\* C18: a wink is level-triggered.  In every reachable state, also while a
\* wink is already reported, a frame with exactly the left (right) eye
\* closed reports the left (right) wink; and a left wink held over two
\* consecutive frames undoes on the second frame as well (history
\* non-empty, nothing to seal): one undo per frame, with no debounce.
C18_WinkIsLevelTriggered ==
    /\ [](\A t \in ClockReadings :
            /\ EyeProcess(eye, LeftWink, t).left_wink_detected
            /\ ~EyeProcess(eye, LeftWink, t).right_wink_detected
            /\ EyeProcess(eye, RightWink, t).right_wink_detected
            /\ ~EyeProcess(eye, RightWink, t).left_wink_detected)
    /\ [][ ( /\ eye.left_wink_detected
             /\ eye'.left_wink_detected
             /\ stroke_history # << >>
             /\ current_stroke = << >> )
           => /\ stroke_history' =
                    SubSeq(stroke_history, 1, Len(stroke_history) - 1)
              /\ redo_stack' =
                    Append(redo_stack, stroke_history[Len(stroke_history)])
         ]_vars

\* a left wink is showing and the second of two undos has just emptied the
\* history
C18_Witness ==
    /\ eye.left_wink_detected
    /\ before_undo # << >>
    /\ Len(before_undo[3]) = 1
    /\ Len(redo_stack) = 2
    /\ stroke_history = << >>

\* C19: no segment, of the brush or of the eraser, is drawn between a
\* position reported before a frame without hand and a position reported
\* after it: the frame that follows a frame without hand has no earlier
\* position to draw from and leaves the canvas as it is (no undo and no
\* save take place).
C19_NoSegmentAcrossHandLoss ==
    [][ hand.index_finger_pos = None => canvas' = canvas ]_vars

\* C20: the colour index stays in 0..3 and names the active colour; colour,
\* index and debounce time change only on a frame with the eyebrows raised
\* and no double blink, more than 1.0 s after the previous change, and the
\* change advances the index by exactly 1 modulo 4.
C20_ColourChangeDebounced ==
    /\ [](/\ color_index \in 0 .. 3
          /\ current_color = color_list[color_index + 1])
    /\ [][ ( \/ current_color' # current_color
             \/ color_index' # color_index
             \/ last_color_change_time' # last_color_change_time )
           => /\ face'.eyebrow_raised
              /\ ~eye'.double_blink_detected
              /\ last_color_change_time' - last_color_change_time
                    > color_debounce
              /\ color_index' = (color_index + 1) % 4
         ]_vars

\* the eyebrows are raised and the colour has gone all the way round, back
\* to the first colour
C20_Witness ==
    /\ face.eyebrow_raised
    /\ last_color_change_time > StartTime + 3 * color_debounce
    /\ color_index = 0
    /\ current_color = color_list[1]

\* C21: in every reachable state a frame on which the eye classifier hits a
\* landmark fault reports no double blink, no left wink and no right wink,
\* leaves last_blink_time as it is, and the main loop, whatever hand and
\* face the frame shows, applies no save, no undo and no redo: it does what
\* drawing, erasing and colour change alone do.
C21_EyeFaultSuppressesGestures ==
    \A t \in ClockReadings :
        LET e == EyeProcess(eye, EyeFault, t)
        IN  /\ ~e.double_blink_detected
            /\ ~e.left_wink_detected
            /\ ~e.right_wink_detected
            /\ e.last_blink_time = eye.last_blink_time
            /\ \A hs \in HandScenes, fs \in FaceScenes :
                  LET h == HandProcess(hand, hs)
                      f == FaceProcess(face, fs)
                      index_pos == h.index_finger_pos
                      m1 == DrawOrSeal(Locals, index_pos, h.is_pinch,
                                       f.mouth_open)
                      m2 == Erase(m1, index_pos, f.mouth_open)
                      m3 == ChangeColor(m2, f.eyebrow_raised, FALSE, t)
                  IN  Translate(Locals, h, f, e, t) = m3

\* a left wink is showing, both eyes have been closed before, and there are
\* strokes to undo and a canvas to save: what the fault frame must not touch
C21_Witness ==
    /\ eye.left_wink_detected
    /\ eye.last_blink_time # 0
    /\ stroke_history # << >>
    /\ redo_stack # << >>
    /\ \E px \in Pixels : canvas[px] # bg_color

====
